---------------------------- MODULE Spec2Model ----------------------------
(***************************************************************************)
(* A model of CSV-Explorer.py: the session-held filter list, the filter   *)
(* evaluator apply_filters and the aggregation of viz_area.                *)
(*                                                                         *)
(* A DataFrame is a record                                                 *)
(*    [cols  : sequence of column names,                                   *)
(*     dtype : column name -> "num" | "dt" | "obj",                        *)
(*     rows  : sequence of [idx : index label, val : column name -> cell]] *)
(* A cell is Num(n), Str(s), Date(d), NaN or NaT.  Python strings are      *)
(* sequences of one-character strings, so that str(), astype(str),         *)
(* float() and str.contains() are computed, not assumed.                   *)
(***************************************************************************)
EXTENDS Integers, Sequences, FiniteSets, TLC

VARIABLES
    df,        \* the DataFrame main() works on (NoTable: no file uploaded)
    filters,   \* st.session_state["filters"]
    x,         \* viz_area: the "X" selectbox
    y,         \* viz_area: the "Y" selectbox (NoneCol when left blank)
    chart,     \* viz_area: the "Chart type" selectbox
    agg,       \* viz_area: the "Aggregation" selectbox
    form,      \* build_filter_ui: what the widgets of "filter_form" returned
    err,       \* the exception the last pass ended with ("none": it completed)
    filtered,  \* the DataFrame apply_filters returned in the last pass
    plot,      \* what viz_area handed to plotly in the last pass
    last       \* the interaction or operation that produced this state

vars == <<df, filters, x, y, chart, agg, form, err, filtered, plot, last>>

----------------------------------------------------------------------------
(* Bounds of the model *)

\* Rows of the tables apply_filters and viz_area are evaluated on
MaxRows == 2
\* Entries of the filter lists apply_filters is evaluated on
MaxFilters == 2
\* Entries the session keeps in st.session_state["filters"] at a time
MaxActive == 1

----------------------------------------------------------------------------
(* Cells and Python values *)

NaN == [t |-> "nan"]
NaT == [t |-> "nat"]
Num(n) == [t |-> "num", v |-> n]
Str(s) == [t |-> "str", v |-> s]
Date(d) == [t |-> "date", v |-> d]
Frac(n, d) == [t |-> "frac", n |-> n, d |-> d]

FloatVal(n) == [t |-> "float", v |-> n]
ListVal(l) == [t |-> "list", v |-> l]

isnull(c) == c.t \in {"nan", "nat"}

Digit(n) == CASE n = 0 -> "0" [] n = 1 -> "1" [] n = 2 -> "2" [] n = 3 -> "3"
              [] n = 4 -> "4" [] n = 5 -> "5" [] n = 6 -> "6" [] n = 7 -> "7"
              [] n = 8 -> "8" [] n = 9 -> "9"

Digits == {"0", "1", "2", "3", "4", "5", "6", "7", "8", "9"}

DigitValue(c) == CHOOSE n \in 0..9 : Digit(n) = c

\* str.lower() / re.IGNORECASE folding of one character
Lower(c) == CASE c = "N" -> "n" [] c = "Y" -> "y" [] c = "T" -> "t"
              [] c = "A" -> "a" [] c = "L" -> "l" [] OTHER -> c

LowerStr(s) == [i \in 1..Len(s) |-> Lower(s[i])]

\* ord() of the characters the model uses
Ord(c) == CASE c = "(" -> 40 [] c = "-" -> 45 [] c = "." -> 46
            [] c \in Digits -> 48 + DigitValue(c)
            [] c = "A" -> 65 [] c = "L" -> 76 [] c = "N" -> 78
            [] c = "T" -> 84 [] c = "Y" -> 89
            [] c = "a" -> 97 [] c = "l" -> 108 [] c = "n" -> 110
            [] c = "t" -> 116 [] c = "y" -> 121

\* str(float): the model's floats are whole numbers 0..9, printed "n.0"
FloatStr(n) == <<Digit(n), ".", "0">>

\* str(datetime.date) and astype(str) of a datetime64 cell: day d of January 2020
DateStr(d) == <<"2", "0", "2", "0", "-", "0", "1", "-", Digit(d \div 10), Digit(d % 10)>>

\* Python's str(val) of a filter operand (a list operand is never passed to str())
PyStr(val) == CASE val.t = "str" -> val.v
                [] val.t = "float" -> FloatStr(val.v)
                [] val.t = "date" -> DateStr(val.v)

\* Series.astype(str) of one cell of a non-numeric column
AsStr(c) == CASE c.t = "str" -> c.v
              [] c.t = "nan" -> <<"n", "a", "n">>
              [] c.t = "date" -> DateStr(c.v)
              [] c.t = "nat" -> <<"N", "a", "T">>

RECURSIVE DecimalValue(_)
DecimalValue(s) == IF s = <<>> THEN 0
                   ELSE 10 * DecimalValue(SubSeq(s, 1, Len(s) - 1)) + DigitValue(s[Len(s)])

RECURSIVE Gcd(_, _)
Gcd(a, b) == IF b = 0 THEN a ELSE Gcd(b, a % b)

\* n / d as a float (d > 0): a whole number, or a fraction in lowest terms
Quotient(n, d) == IF n % d = 0 THEN Num(n \div d)
                  ELSE Frac(n \div Gcd(n, d), d \div Gcd(n, d))

RECURSIVE Pow10(_)
Pow10(k) == IF k = 0 THEN 1 ELSE 10 * Pow10(k - 1)

\* float(str) over the model's characters (letters, digits, "-", "." and "("):
\* an optional "-", then either "nan" in any case, or digits with at most one "."
\* and at least one digit ("2", "2.0", "1.", ".5"); every other string raises
\* ValueError.  -0.0 compares as 0.
ParseFloat(s) ==
    LET neg == s # <<>> /\ s[1] = "-"
        body == IF neg THEN Tail(s) ELSE s
        dots == {i \in 1..Len(body) : body[i] = "."}
        IsDigit(c) == c \in Digits
        digs == SelectSeq(body, IsDigit)
        dot == CHOOSE i \in dots : TRUE
        places == IF dots = {} THEN 0 ELSE Len(body) - dot
        n == DecimalValue(digs)
    IN IF LowerStr(body) = <<"n", "a", "n">>
       THEN [ok |-> TRUE, v |-> NaN]
       ELSE IF /\ \A i \in 1..Len(body) : body[i] \in Digits \cup {"."}
               /\ Cardinality(dots) <= 1
               /\ digs # <<>>
       THEN [ok |-> TRUE, v |-> Quotient(IF neg THEN -n ELSE n, Pow10(places))]
       ELSE [ok |-> FALSE, v |-> NaN]

\* try: v = float(val) except Exception: a list or a date raises TypeError
FloatOf(val) == CASE val.t = "float" -> [ok |-> TRUE, v |-> Num(val.v)]
                  [] val.t = "str" -> ParseFloat(val.v)
                  [] OTHER -> [ok |-> FALSE, v |-> NaN]

----------------------------------------------------------------------------
(* DataFrames *)

NoTable == [cols |-> <<>>, dtype |-> <<>>, rows |-> <<>>]

\* The blank option of the Y selectbox, and no chart drawn
NoneCol == "None"
NoPlot == [kind |-> "none"]

Columns(t) == {t.cols[i] : i \in 1..Len(t.cols)}

is_numeric_dtype(d) == d = "num"
is_datetime64_any_dtype(d) == d = "dt"

\* A mutation of BoolIndex: the mask is applied by position, not by index label
BoolIndex_ByPosition(out, mask) ==
    [out EXCEPT !.rows =
        LET pos == {i \in 1..Len(out.rows) : (i - 1) \in mask}
            Keep(r) == \E i \in pos : out.rows[i] = r
        IN SelectSeq(out.rows, Keep)]

\* out[mask]: boolean indexing keeps the rows whose index label is in the mask,
\* in their order, with the columns and dtypes unchanged
BoolIndex(out, mask) ==
    LET Keep(r) == r.idx \in mask
    IN [out EXCEPT !.rows = SelectSeq(out.rows, Keep)]

\* A mutation of Copy: the copy drops the rows that hold a missing value
Copy_DropsMissing(t) ==
    LET Full(r) == \A c \in DOMAIN r.val : ~isnull(r.val[c])
    IN [t EXCEPT !.rows = SelectSeq(t.rows, Full)]

\* df.copy()
Copy(t) == t

----------------------------------------------------------------------------
(* apply_filters *)

NumOps == {"==", "!=", "<", "<=", ">", ">="}
CatOps == {"==", "!=", "contains", "not contains", "in", "not in"}

\* A float as numerator over a positive denominator
Numer(c) == IF c.t = "frac" THEN c.n ELSE c.v
Denom(c) == IF c.t = "frac" THEN c.d ELSE 1

\* A mutation of NumCmp: a missing cell fails != as it fails every other test
NumCmp_NullFailsNe(op, c, v) ==
    IF isnull(c) \/ isnull(v) THEN FALSE
    ELSE LET a == Numer(c) * Denom(v)
             b == Numer(v) * Denom(c)
         IN CASE op = "==" -> a = b
              [] op = "!=" -> a # b
              [] op = "<" -> a < b
              [] op = "<=" -> a <= b
              [] op = ">" -> a > b
              [] op = ">=" -> a >= b

\* A mutation of NumCmp: >= and <= leave out the rows equal to the operand
NumCmp_StrictOrdering(op, c, v) ==
    IF isnull(c) \/ isnull(v) THEN op = "!="
    ELSE LET a == Numer(c) * Denom(v)
             b == Numer(v) * Denom(c)
         IN CASE op = "==" -> a = b
              [] op = "!=" -> a # b
              [] op = "<" -> a < b
              [] op = "<=" -> a < b
              [] op = ">" -> a > b
              [] op = ">=" -> a > b

\* out[col] <op> v, elementwise: a comparison with NaN on either side is False,
\* except != which is True
NumCmp(op, c, v) ==
    IF isnull(c) \/ isnull(v) THEN op = "!="
    ELSE LET a == Numer(c) * Denom(v)
             b == Numer(v) * Denom(c)
         IN CASE op = "==" -> a = b
              [] op = "!=" -> a # b
              [] op = "<" -> a < b
              [] op = "<=" -> a <= b
              [] op = ">" -> a > b
              [] op = ">=" -> a >= b

\* re.compile(pat): over the model's characters (letters, digits, "-", "." and
\* "(", no ")") a pattern fails to compile exactly when it holds a "("
re_compile_ok(pat) == \A i \in 1..Len(pat) : pat[i] # "("

\* One character of a compiled pattern against one character of the subject,
\* under re.IGNORECASE: "." matches any character, the others match themselves
re_match_char(p, c) == p = "." \/ Lower(p) = Lower(c)

\* pat.search(s) is not None, for a pattern that compiled
re_search(pat, s) ==
    \E i \in 0..(Len(s) - Len(pat)) :
        \A j \in 1..Len(pat) : re_match_char(pat[j], s[i + j])

\* s.isin([str(x) for x in val])
isin(s, l) == \E i \in 1..Len(l) : l[i] = s

\* The rows of a table, as a set
RowSet(out) == {out.rows[i] : i \in 1..Len(out.rows)}

Ok(out) == [err |-> "none", out |-> out]
Raise(e) == [err |-> e, out |-> NoTable]

\* A mutation of NumericBranch: a value float() rejects removes every row
NumericBranch_BadValueDropsAll(out, f) ==
    LET c == FloatOf(f.val)
        mask == {r.idx : r \in {q \in RowSet(out) : NumCmp(f.op, q.val[f.col], c.v)}}
    IN IF ~c.ok THEN Ok(BoolIndex(out, {}))
       ELSE IF f.op \in NumOps THEN Ok(BoolIndex(out, mask))
       ELSE Ok(out)

\* Lines 83-99: the column is numeric
NumericBranch(out, f) ==
    LET c == FloatOf(f.val)
        mask == {r.idx : r \in {q \in RowSet(out) : NumCmp(f.op, q.val[f.col], c.v)}}
    IN IF ~c.ok THEN Ok(out)
       ELSE IF f.op \in NumOps THEN Ok(BoolIndex(out, mask))
       ELSE Ok(out)

\* Lines 100-113: every other column, compared as strings
StringBranch(out, f) ==
    LET s(r) == AsStr(r.val[f.col])
        Eq == {r.idx : r \in {q \in RowSet(out) : s(q) = PyStr(f.val)}}
        Has == {r.idx : r \in {q \in RowSet(out) : re_search(PyStr(f.val), s(q))}}
        In == {r.idx : r \in {q \in RowSet(out) : isin(s(q), f.val.v)}}
        All == {r.idx : r \in RowSet(out)}
    IN CASE f.op = "==" -> Ok(BoolIndex(out, Eq))
         [] f.op = "!=" -> Ok(BoolIndex(out, All \ Eq))
         [] f.op = "contains" ->
                IF re_compile_ok(PyStr(f.val)) THEN Ok(BoolIndex(out, Has))
                ELSE Raise("re.error")
         [] f.op = "not contains" ->
                IF re_compile_ok(PyStr(f.val)) THEN Ok(BoolIndex(out, All \ Has))
                ELSE Raise("re.error")
         [] f.op = "in" -> Ok(BoolIndex(out, In))
         [] f.op = "not in" -> Ok(BoolIndex(out, All \ In))
         [] OTHER -> Ok(out)

\* One iteration of the loop of apply_filters (lines 81-113)
FilterStep(out, f) ==
    IF f.col \notin Columns(out) THEN Raise("KeyError")
    ELSE IF is_numeric_dtype(out.dtype[f.col]) THEN NumericBranch(out, f)
    ELSE StringBranch(out, f)

RECURSIVE FilterLoop_BreakOnSkip(_, _)
\* A mutation of FilterLoop: a value float() rejects ends the loop (break for continue)
FilterLoop_BreakOnSkip(out, fs) ==
    IF fs = <<>> THEN Ok(out)
    ELSE LET f == Head(fs)
             r == FilterStep(out, f)
         IN IF r.err # "none" THEN r
            ELSE IF f.col \in Columns(out) /\ is_numeric_dtype(out.dtype[f.col])
                    /\ ~FloatOf(f.val).ok
            THEN Ok(out)
            ELSE FilterLoop_BreakOnSkip(r.out, Tail(fs))

RECURSIVE FilterLoop(_, _)
\* The loop of apply_filters over the filters left; an exception ends it
FilterLoop(out, fs) ==
    IF fs = <<>> THEN Ok(out)
    ELSE LET r == FilterStep(out, Head(fs))
         IN IF r.err # "none" THEN r ELSE FilterLoop(r.out, Tail(fs))

\* apply_filters(df) with st.session_state["filters"] = fs
apply_filters(t, fs) == FilterLoop(Copy(t), fs)

----------------------------------------------------------------------------
(* build_filter_ui: the entries it can append to st.session_state["filters"] *)

\* The values the widgets of the filter form are given in the model
NumberInputs == {FloatVal(2)}
DateInputs == {Date(2)}
TextInputs == {Str(<<>>), Str(<<"n", "y">>), Str(<<"a">>), Str(<<"(">>)}

\* df[col].astype(str).value_counts().index.tolist()[:20]: the distinct strings of
\* the column, the most frequent first and, among equally frequent ones, the one
\* met first (the model's columns hold fewer than 20 distinct values)
top_vals(t, col) ==
    LET s == [i \in 1..Len(t.rows) |-> AsStr(t.rows[i].val[col])]
        distinct == {s[i] : i \in 1..Len(s)}
        count(v) == Cardinality({i \in 1..Len(s) : s[i] = v})
        first(v) == CHOOSE i \in 1..Len(s) : s[i] = v /\ \A j \in 1..(i - 1) : s[j] # v
        before(a, b) == count(a) > count(b) \/ (count(a) = count(b) /\ first(a) < first(b))
    IN [k \in 1..Cardinality(distinct) |->
           CHOOSE v \in distinct : Cardinality({u \in distinct : before(u, v)}) = k - 1]

\* The values st.multiselect can return over its options: nothing picked, or
\* one option picked
MultiselectInputs(options) ==
    {ListVal(<<>>)} \cup {ListVal(<<options[i]>>) : i \in 1..Len(options)}

Picks(t, col) == MultiselectInputs(top_vals(t, col))

Filter(col, op, val) == [col |-> col, op |-> op, val |-> val]

\* Lines 42-59: (column, operator, value) triples the form can append on table t,
\* over the runs of a session
FormChoices(t) ==
    UNION {
        IF is_numeric_dtype(t.dtype[col])
        THEN {Filter(col, op, val) : op \in NumOps, val \in NumberInputs}
        ELSE IF is_datetime64_any_dtype(t.dtype[col])
        THEN {Filter(col, op, val) : op \in NumOps, val \in DateInputs}
        ELSE {Filter(col, op, val) : op \in CatOps \ {"in", "not in"}, val \in TextInputs}
             \cup {Filter(col, op, val) : op \in {"in", "not in"}, val \in Picks(t, col)}
        : col \in Columns(t)}

\* The options of the "Operator" selectbox for a column (lines 45, 50, 53)
OpOptions(t, col) ==
    IF is_numeric_dtype(t.dtype[col]) \/ is_datetime64_any_dtype(t.dtype[col])
    THEN NumOps ELSE CatOps

\* float(df[col].min(skipna=True)), line 47, of a column that holds a number
mn(t, col) ==
    LET vs == {t.rows[i].val[col].v :
                  i \in {j \in 1..Len(t.rows) : ~isnull(t.rows[j].val[col])}}
    IN CHOOSE m \in vs : \A v \in vs : m <= v

\* The widget lines 48, 51, 57 and 59 create for the value, with the value it
\* returns when first created; st.date_input starts at the day of the run
ValueWidget(t, col, op) ==
    IF is_numeric_dtype(t.dtype[col])
    THEN [w |-> "number_input", value |-> FloatVal(mn(t, col)), options |-> <<>>]
    ELSE IF is_datetime64_any_dtype(t.dtype[col])
    THEN [w |-> "date_input", value |-> Date(2), options |-> <<>>]
    ELSE IF op \in {"in", "not in"}
    THEN [w |-> "multiselect", value |-> ListVal(<<>>), options |-> top_vals(t, col)]
    ELSE [w |-> "text_input", value |-> Str(<<>>), options |-> <<>>]

\* Streamlit knows a widget by its kind, label and arguments: two runs draw the
\* same widget when these agree, and only then does its value carry over
SameWidget(a, b) ==
    /\ a.w = b.w
    /\ a.w = "number_input" => a.value.v = b.value.v
    /\ a.w = "multiselect" => a.options = b.options

\* The values the user can give a widget of the form
Inputs(wd) ==
    CASE wd.w = "number_input" -> NumberInputs \cup {wd.value}
      [] wd.w = "date_input" -> DateInputs
      [] wd.w = "multiselect" -> MultiselectInputs(wd.options)
      [] wd.w = "text_input" -> TextInputs

\* No file uploaded: main returns before build_filter_ui and the form is not drawn
NoForm == [col |-> NoneCol, op |-> "==", val |-> Str(<<>>)]

\* Lines 40-59 in one run on table t: what the widgets of the form return when
\* the run before drew the form pf on table pt, and the browser sends c for the
\* Column selectbox, o and v for the Operator selectbox and the value widget it
\* showed.  A widget this run creates anew returns its default.
DrawForm(pt, pf, t, c, o, v) ==
    LET shown == pf.col # NoneCol
        op == IF shown /\ OpOptions(t, c) = OpOptions(pt, pf.col) THEN o ELSE "=="
        wd == ValueWidget(t, c, op)
        val == IF shown /\ SameWidget(wd, ValueWidget(pt, pf.col, pf.op))
               THEN v ELSE wd.value
    IN Filter(c, op, val)

\* The form as a run draws it when the user sent nothing for it: the Column
\* selectbox keeps its value while its options (df.columns) are the same
Redraw(pt, pf, t) ==
    DrawForm(pt, pf, t,
             IF pf.col # NoneCol /\ t.cols = pt.cols THEN pf.col ELSE t.cols[1],
             pf.op, pf.val)

\* Lines 61-63, a click on "Add filter".  The widgets of an st.form reach the
\* script on submit only: the user sets the widgets the page shows (those of the
\* run before, pf) and the run of the click reads them.  For column c the run
\* returns the user's operator when it draws the Operator selectbox the page
\* showed, and "==" when it creates another one
SubmitOps(t, pf, c) ==
    IF OpOptions(t, c) = OpOptions(t, pf.col) THEN OpOptions(t, c) ELSE {"=="}

\* It returns the user's value when it draws the value widget the page showed,
\* and the default of the widget it creates otherwise
SubmitVals(t, pf, c, op) ==
    IF SameWidget(ValueWidget(t, c, op), ValueWidget(t, pf.col, pf.op))
    THEN Inputs(ValueWidget(t, c, op))
    ELSE {ValueWidget(t, c, op).value}

\* Entries the form appended while the column of that name had another dtype
\* (session_state outlives the table): text and picks against a numeric column,
\* a number against a string column
StaleChoices(t) ==
    UNION {
        IF is_numeric_dtype(t.dtype[col])
        THEN {Filter(col, "==", Str(<<"n", "y">>)), Filter(col, "==", Str(<<"2", ".", "0">>)),
              Filter(col, "in", ListVal(<<<<"N", "Y">>>>))}
        ELSE IF is_datetime64_any_dtype(t.dtype[col])
        THEN {}
        ELSE {Filter(col, ">=", FloatVal(2))}
        : col \in Columns(t)}

----------------------------------------------------------------------------
(* The tables and filter lists the evaluator is checked on *)

NumCells == {Num(1), Num(2), Num(3), NaN}
ObjCells == {Str(<<"N", "Y">>), Str(<<"n", "y">>), NaN}

\* read_csv (line 14) is called without parse_dates: a loaded column is numeric
\* or object, never datetime64
CellDom(d) == CASE d = "num" -> NumCells [] d = "obj" -> ObjCells

\* The rows a table of the given dtypes can hold
RowVals(dtype) ==
    {f \in [DOMAIN dtype -> NumCells \cup ObjCells] :
        \A c \in DOMAIN dtype : f[c] \in CellDom(dtype[c])}

\* Every table of at most n rows with the given columns, indexed 0, 1, ...
TablesOf(cols, dtype, n) ==
    UNION {
        {[cols |-> cols, dtype |-> dtype,
          rows |-> [i \in 1..k |-> [idx |-> i - 1, val |-> f[i]]]]
            : f \in [1..k -> RowVals(dtype)]}
        : k \in 0..n}

Row2(i, a, c) == [idx |-> i, val |-> [age |-> a, city |-> c]]

\* The files uploaded in the model, as load_csv returns them (read_csv gives a
\* column of numbers a numeric dtype and any other column object dtype)
People ==
    [cols |-> <<"age", "city">>, dtype |-> [age |-> "num", city |-> "obj"],
     rows |-> <<Row2(0, Num(1), Str(<<"N", "Y">>)), Row2(1, Num(2), Str(<<"n", "y">>)),
                Row2(2, NaN, NaN)>>]

Survey ==
    [cols |-> <<"age", "city">>, dtype |-> [age |-> "obj", city |-> "obj"],
     rows |-> <<Row2(0, Str(<<"n", "y">>), Str(<<"N", "Y">>)), Row2(1, NaN, Str(<<"n", "y">>))>>]

Cities ==
    [cols |-> <<"city">>, dtype |-> [city |-> "obj"],
     rows |-> <<[idx |-> 0, val |-> [city |-> Str(<<"N", "Y">>)]],
                [idx |-> 1, val |-> [city |-> NaN]]>>]

Uploads == {People, Survey, Cities}

SeqsUpTo(S, n) == UNION {[1..k -> S] : k \in 0..n}

\* Every one-column table of each dtype load_csv produces, and the two-column
\* table People
FilterTables ==
    TablesOf(<<"age">>, [age |-> "num"], MaxRows)
    \cup TablesOf(<<"city">>, [city |-> "obj"], MaxRows)
    \cup {People}

\* apply_filters on a drawn table and filter list
InitFilter ==
    /\ df \in FilterTables
    /\ filters \in SeqsUpTo(FormChoices(df) \cup StaleChoices(df), MaxFilters)
    /\ x = NoneCol /\ y = NoneCol /\ chart = "Bar (agg)" /\ agg = "mean"
    /\ form = NoForm
    /\ err = "none" /\ filtered = NoTable /\ plot = NoPlot
    /\ last = "init"

\* filtered = apply_filters(df)
ApplyFilters ==
    /\ last = "init"
    /\ LET r == apply_filters(df, filters)
       IN /\ err' = r.err
          /\ filtered' = r.out
    /\ last' = "apply_filters"
    /\ UNCHANGED <<df, filters, x, y, chart, agg, form, plot>>

NextFilter == ApplyFilters

SpecFilter == InitFilter /\ [][NextFilter]_vars

----------------------------------------------------------------------------
(* viz_area *)

ChartTypes == {"Bar (agg)", "Line (agg)", "Scatter", "Histogram"}
Aggregations == {"mean", "sum", "median", "count"}

\* px.histogram(..., nbins=30)
NBins == 30

RECURSIVE StrLess(_, _)
\* Python's < on two strings
StrLess(a, b) ==
    IF b = <<>> THEN FALSE
    ELSE IF a = <<>> THEN TRUE
    ELSE IF Ord(Head(a)) # Ord(Head(b)) THEN Ord(Head(a)) < Ord(Head(b))
    ELSE StrLess(Tail(a), Tail(b))

\* The order groupby sorts its keys in; the missing key comes last
KeyLess(a, b) ==
    IF isnull(a) THEN FALSE
    ELSE IF isnull(b) THEN TRUE
    ELSE IF a.t = "str" THEN StrLess(a.v, b.v)
    ELSE a.v < b.v

RECURSIVE SortKeys(_)
SortKeys(S) ==
    IF S = {} THEN <<>>
    ELSE LET m == CHOOSE k \in S : \A o \in S \ {k} : KeyLess(k, o)
         IN <<m>> \o SortKeys(S \ {m})

RECURSIVE SortInts(_)
SortInts(s) ==
    IF s = <<>> THEN <<>>
    ELSE LET i == CHOOSE k \in 1..Len(s) : \A j \in 1..Len(s) : s[k] <= s[j]
         IN <<s[i]>> \o SortInts(SubSeq(s, 1, i - 1) \o SubSeq(s, i + 1, Len(s)))

RECURSIVE SumInts(_)
SumInts(s) == IF s = <<>> THEN 0 ELSE Head(s) + SumInts(Tail(s))

\* The rows of one group of groupby(x, dropna=False), in table order
GroupRows(t, xc, key) ==
    LET InGroup(r) == r.val[xc] = key
    IN SelectSeq(t.rows, InGroup)

\* The non-missing values of column yc in the rows, in order
Present(rows, yc) ==
    LET Has(r) == ~isnull(r.val[yc])
        kept == SelectSeq(rows, Has)
    IN [i \in 1..Len(kept) |-> kept[i].val[yc].v]

\* A mutation of Reduce: count counts the rows of the group, missing or not
Reduce_CountsRows(fn, rows, yc) ==
    LET vals == Present(rows, yc)
        n == Len(vals)
        srt == SortInts(vals)
    IN CASE fn = "mean" -> IF n = 0 THEN NaN ELSE Quotient(SumInts(vals), n)
         [] fn = "sum" -> Num(SumInts(vals))
         [] fn = "median" ->
                IF n = 0 THEN NaN
                ELSE IF n % 2 = 1 THEN Num(srt[(n + 1) \div 2])
                ELSE Quotient(srt[n \div 2] + srt[n \div 2 + 1], 2)
         [] fn = "count" -> Num(Len(rows))

\* Lines 129-136: .mean(), .sum(), .median(), .count() of one group; each skips
\* the missing values
Reduce(fn, rows, yc) ==
    LET vals == Present(rows, yc)
        n == Len(vals)
        srt == SortInts(vals)
    IN CASE fn = "mean" -> IF n = 0 THEN NaN ELSE Quotient(SumInts(vals), n)
         [] fn = "sum" -> Num(SumInts(vals))
         [] fn = "median" ->
                IF n = 0 THEN NaN
                ELSE IF n % 2 = 1 THEN Num(srt[(n + 1) \div 2])
                ELSE Quotient(srt[n \div 2] + srt[n \div 2 + 1], 2)
         [] fn = "count" -> Num(n)

GroupKeys(t, xc) == SortKeys({t.rows[i].val[xc] : i \in 1..Len(t.rows)})

\* plot_df.groupby(x, dropna=False)[y].<fn>() : one entry per key, keys sorted
GroupAgg(t, xc, yc, fn) ==
    LET keys == GroupKeys(t, xc)
    IN [i \in 1..Len(keys) |->
            [key |-> keys[i], value |-> Reduce(fn, GroupRows(t, xc, keys[i]), yc)]]

\* plot_df.groupby(x, dropna=False).size()
GroupSize(t, xc) ==
    LET keys == GroupKeys(t, xc)
    IN [i \in 1..Len(keys) |->
            [key |-> keys[i], value |-> Num(Len(GroupRows(t, xc, keys[i])))]]

\* The Aggregation selectbox exists only in the branch of line 127
AggShown(t, yc, ch) ==
    /\ ch \in {"Bar (agg)", "Line (agg)"}
    /\ yc # NoneCol
    /\ is_numeric_dtype(t.dtype[yc])

\* viz_area(df) with the widgets at xc, yc, ch, fn.  reset_index() of a grouped
\* series named like its index raises ValueError; both agg chart types draw px.bar
viz_area(t, xc, yc, ch, fn) ==
    IF ch \in {"Bar (agg)", "Line (agg)"}
    THEN IF AggShown(t, yc, ch)
         THEN IF xc = yc THEN [err |-> "ValueError", plot |-> NoPlot]
              ELSE [err |-> "none",
                    plot |-> [kind |-> "bar", x |-> xc, y |-> yc,
                              series |-> GroupAgg(t, xc, yc, fn)]]
         ELSE [err |-> "none",
               plot |-> [kind |-> "bar", x |-> xc, y |-> "count",
                         series |-> GroupSize(t, xc)]]
    ELSE IF ch = "Scatter"
    THEN IF yc = NoneCol THEN [err |-> "none", plot |-> [kind |-> "info"]]
         ELSE [err |-> "none",
               plot |-> [kind |-> "scatter", x |-> xc, y |-> yc,
                         points |-> [i \in 1..Len(t.rows) |->
                                        <<t.rows[i].val[xc], t.rows[i].val[yc]>>]]]
    ELSE IF is_numeric_dtype(t.dtype[xc])
         THEN [err |-> "none",
               plot |-> [kind |-> "histogram", x |-> xc, nbins |-> NBins,
                         values |-> [i \in 1..Len(t.rows) |-> t.rows[i].val[xc]]]]
         ELSE [err |-> "none", plot |-> [kind |-> "info"]]

\* The tables the aggregation is checked on: a numeric and a string column
VizTables == TablesOf(<<"age", "city">>, [age |-> "num", city |-> "obj"], MaxRows)

\* viz_area on a drawn table and drawn widget values
InitViz ==
    /\ df \in VizTables
    /\ filters = <<>>
    /\ x \in Columns(df)
    /\ y \in {NoneCol} \cup Columns(df)
    /\ chart \in ChartTypes
    /\ agg \in Aggregations
    /\ agg # "mean" => AggShown(df, y, chart)
    /\ form = NoForm
    /\ err = "none" /\ filtered = df /\ plot = NoPlot
    /\ last = "init"

\* viz_area(filtered)
VizArea ==
    /\ last = "init"
    /\ LET v == viz_area(filtered, x, y, chart, agg)
       IN /\ err' = v.err
          /\ plot' = v.plot
    /\ last' = "viz_area"
    /\ UNCHANGED <<df, filters, x, y, chart, agg, form, filtered>>

NextViz == VizArea

SpecViz == InitViz /\ [][NextViz]_vars

----------------------------------------------------------------------------
(* main: the session.  Every interaction reruns the script: build_filter_ui,
   apply_filters, viz_area (lines 171-187). *)

\* Lines 181-185 once apply_filters has returned r, or raised
PassAfter(r, xc, yc, ch, fn) ==
    IF r.err # "none"
    THEN [err |-> r.err, filtered |-> NoTable, plot |-> NoPlot]
    ELSE [filtered |-> r.out] @@ viz_area(r.out, xc, yc, ch, fn)

\* One pass of main() below the upload: the exception it ends with, the filtered
\* table and the chart
Pass(t, fs, xc, yc, ch, fn) == PassAfter(apply_filters(t, fs), xc, yc, ch, fn)

\* The widgets of viz_area keep their values from run to run while they are drawn
\* with the same options; a widget a run does not draw starts from its default
VizDrawn(e) == e \in {"none", "ValueError"}

Init ==
    /\ df = NoTable
    /\ filters = <<>>
    /\ x = NoneCol /\ y = NoneCol /\ chart = "Bar (agg)" /\ agg = "mean"
    /\ form = NoForm
    /\ err = "none" /\ filtered = NoTable /\ plot = NoPlot
    /\ last = "start"

\* The rerun after an interaction, with the widgets at xc, yc, ch, fn
Rerun(t, fs, xc, yc, ch, fn) ==
    \E p \in {Pass(t, fs, xc, yc, ch, IF AggShown(t, yc, ch) THEN fn ELSE "mean")} :
       /\ err' = p.err
       /\ filtered' = p.filtered
       /\ plot' = p.plot
       /\ IF VizDrawn(p.err)
          THEN /\ x' = xc /\ y' = yc /\ chart' = ch
               /\ agg' = IF AggShown(t, yc, ch) THEN fn ELSE "mean"
          ELSE x' = t.cols[1] /\ y' = NoneCol /\ chart' = "Bar (agg)" /\ agg' = "mean"

\* A run that st.experimental_rerun() ended (lines 71, 74) made no pass and drew
\* no widget of viz_area; the runner owes the session another run
RerunRequested == last = "experimental_rerun"

\* The values the widgets of viz_area hold when the next run draws them
WidgetX == IF RerunRequested THEN df.cols[1] ELSE x
WidgetY == IF RerunRequested THEN NoneCol ELSE y
WidgetChart == IF RerunRequested THEN "Bar (agg)" ELSE chart
WidgetAgg == IF RerunRequested THEN "mean" ELSE agg

\* The user uploads a file (lines 172-187); session_state is left as it is
Upload(t) ==
    /\ df' = t
    /\ filters' = filters
    /\ Rerun(t, filters,
             IF t.cols = df.cols THEN WidgetX ELSE t.cols[1],
             IF t.cols = df.cols THEN WidgetY ELSE NoneCol,
             WidgetChart,
             IF t.cols = df.cols THEN WidgetAgg ELSE "mean")
    /\ form' = Redraw(df, form, t)
    /\ last' = "rerun"

\* The user removes the file: main returns at line 175
Unload ==
    /\ df # NoTable
    /\ df' = NoTable
    /\ filters' = filters
    /\ x' = NoneCol /\ y' = NoneCol /\ chart' = "Bar (agg)" /\ agg' = "mean"
    /\ form' = NoForm
    /\ err' = "none" /\ filtered' = NoTable /\ plot' = NoPlot
    /\ last' = "unload"

\* "Add filter" (lines 40-63): the run of the click draws the form from what the
\* browser sent and appends what its widgets return
AddFilter(c, op, val) ==
    /\ df # NoTable
    /\ Len(filters) < MaxActive
    /\ c \in Columns(df)
    /\ op \in SubmitOps(df, form, c)
    /\ val \in SubmitVals(df, form, c, op)
    /\ filters' = Append(filters, Filter(c, op, val))
    /\ form' = Filter(c, op, val)
    /\ Rerun(df, filters', WidgetX, WidgetY, WidgetChart, WidgetAgg)
    /\ df' = df
    /\ last' = "rerun"

\* "Remove filter i+1" (lines 69-71): the run of the click pops the entry and
\* ends at st.experimental_rerun(), before line 181: it applies no filter and
\* draws no chart, so the table, chart and exception on the page are those of
\* the run before
RemoveFilter(i) ==
    /\ df # NoTable
    /\ i \in 1..Len(filters)
    /\ filters' = [j \in 1..(Len(filters) - 1) |-> IF j < i THEN filters[j] ELSE filters[j + 1]]
    /\ last' = "experimental_rerun"
    /\ UNCHANGED <<df, x, y, chart, agg, form, err, filtered, plot>>

\* "Clear all filters" (lines 72-74): the run of the click empties the list and
\* ends at st.experimental_rerun()
ClearFilters ==
    /\ df # NoTable
    /\ filters # <<>>
    /\ filters' = <<>>
    /\ last' = "experimental_rerun"
    /\ UNCHANGED <<df, x, y, chart, agg, form, err, filtered, plot>>

\* The run the runner starts after st.experimental_rerun(): a pass of main over
\* the changed list (lines 171-187), the widgets of viz_area at their defaults
experimental_rerun ==
    /\ RerunRequested
    /\ Rerun(df, filters, df.cols[1], NoneCol, "Bar (agg)", "mean")
    /\ UNCHANGED <<df, filters, form>>
    /\ last' = "rerun"

\* The user changes one widget of viz_area (lines 119-121, 128) on a page that
\* shows it
SelectX(c) ==
    /\ df # NoTable /\ VizDrawn(err) /\ ~RerunRequested
    /\ c \in Columns(df) /\ c # x
    /\ Rerun(df, filters, c, y, chart, agg)
    /\ UNCHANGED <<df, filters, form>>
    /\ last' = "rerun"

SelectY(c) ==
    /\ df # NoTable /\ VizDrawn(err) /\ ~RerunRequested
    /\ c \in {NoneCol} \cup Columns(df) /\ c # y
    /\ Rerun(df, filters, x, c, chart, agg)
    /\ UNCHANGED <<df, filters, form>>
    /\ last' = "rerun"

SelectChart(ch) ==
    /\ df # NoTable /\ VizDrawn(err) /\ ~RerunRequested
    /\ ch \in ChartTypes /\ ch # chart
    /\ Rerun(df, filters, x, y, ch, agg)
    /\ UNCHANGED <<df, filters, form>>
    /\ last' = "rerun"

SelectAgg(fn) ==
    /\ df # NoTable /\ VizDrawn(err) /\ ~RerunRequested
    /\ AggShown(df, y, chart)
    /\ fn \in Aggregations /\ fn # agg
    /\ Rerun(df, filters, x, y, chart, fn)
    /\ UNCHANGED <<df, filters, form>>
    /\ last' = "rerun"

\* A request from the browser (an upload, a click in the filter form) can reach
\* the runner before the run it owes; the run it then makes serves both
Next ==
    \/ \E t \in Uploads : Upload(t)
    \/ Unload
    \/ \E c \in Columns(df) :
          \E op \in SubmitOps(df, form, c) :
             \E val \in SubmitVals(df, form, c, op) : AddFilter(c, op, val)
    \/ \E i \in 1..Len(filters) : RemoveFilter(i)
    \/ ClearFilters
    \/ experimental_rerun
    \/ \E c \in Columns(df) : SelectX(c)
    \/ \E c \in {NoneCol} \cup Columns(df) : SelectY(c)
    \/ \E ch \in ChartTypes : SelectChart(ch)
    \/ \E fn \in Aggregations : SelectAgg(fn)

Spec == Init /\ [][Next]_vars

----------------------------------------------------------------------------
(* Properties of apply_filters, checked under SpecFilter *)

Evaluated == last = "apply_filters"

Result == [err |-> err, out |-> filtered]

IdxSet(t) == {t.rows[i].idx : i \in 1..Len(t.rows)}

Permuted(fs, p) == [i \in 1..Len(fs) |-> fs[p[i]]]

Without(fs, i) == [j \in 1..(Len(fs) - 1) |-> IF j < i THEN fs[j] ELSE fs[j + 1]]

Cell(t, i, col) == t.rows[i].val[col]

\* The entry is on a numeric column of t and float() rejects its value
Uncoercible(t, f) ==
    /\ f.col \in Columns(t)
    /\ is_numeric_dtype(t.dtype[f.col])
    /\ ~FloatOf(f.val).ok

\* C1: apply_filters returns the same table for every permutation of the filter
\* list, and that table holds exactly the rows of df that each predicate, applied
\* alone, keeps (the conjunction of the predicates).
C1_OrderIndependent ==
    Evaluated =>
        /\ \A p \in Permutations(1..Len(filters)) :
               apply_filters(df, Permuted(filters, p)) = Result
        /\ err = "none" =>
               /\ filtered.cols = df.cols /\ filtered.dtype = df.dtype
               /\ filtered.rows =
                    LET Kept(r) == \A i \in 1..Len(filters) :
                                      r.idx \in IdxSet(apply_filters(df, <<filters[i]>>).out)
                    IN SelectSeq(df.rows, Kept)

\* Two predicates in the list, one of which removes rows and one of which keeps some
C1_Witness ==
    /\ Evaluated /\ err = "none"
    /\ Len(filters) = 2 /\ filters[1] # filters[2]
    /\ Len(filtered.rows) = 1 /\ Len(df.rows) = 2
    /\ IdxSet(apply_filters(df, <<filters[1]>>).out) # IdxSet(apply_filters(df, <<filters[2]>>).out)

\* C2: with an empty filter list apply_filters completes and returns a table equal
\* to df (same rows, order, columns), and the step leaves df itself unchanged.
C2_EmptyIsIdentity ==
    [][(last' = "apply_filters" /\ filters = <<>>) =>
          (err' = "none" /\ filtered' = df /\ df' = df)]_vars

\* The empty filter list was evaluated on a table with rows, one of them with a
\* missing value
C2_Witness ==
    /\ Evaluated /\ filters = <<>>
    /\ Len(filtered.rows) = 2
    /\ \E i \in 1..Len(df.rows) : \E c \in Columns(df) : isnull(Cell(df, i, c))

\* C3: applying the same filter list to the table apply_filters returned gives
\* that table again.
C3_Idempotent ==
    (Evaluated /\ err = "none") => apply_filters(filtered, filters) = Ok(filtered)

\* A filter list that removed the first row and kept another
C3_Witness ==
    /\ Evaluated /\ err = "none" /\ filters # <<>>
    /\ Len(df.rows) = 2 /\ Len(filtered.rows) = 1
    /\ filtered.rows[1].idx = 1

\* C4: for a single predicate (c, ==, v) that is not skipped, the rows it keeps and
\* the rows (c, !=, v) keeps are disjoint and together are all rows of df.
C4_EqNePartition ==
    (/\ Evaluated /\ Len(filters) = 1 /\ filters[1].op = "=="
     /\ ~Uncoercible(df, filters[1]))
    => LET ne == apply_filters(df, <<[filters[1] EXCEPT !.op = "!="]>>)
       IN /\ err = "none" /\ ne.err = "none"
          /\ IdxSet(filtered) \cap IdxSet(ne.out) = {}
          /\ IdxSet(filtered) \cup IdxSet(ne.out) = IdxSet(df)

\* An == predicate on a numeric column that keeps one row, on a table whose other
\* row is missing in that column
C4_Witness ==
    /\ Evaluated /\ Len(filters) = 1 /\ filters[1].op = "=="
    /\ is_numeric_dtype(df.dtype[filters[1].col])
    /\ ~Uncoercible(df, filters[1])
    /\ Len(df.rows) = 2 /\ Len(filtered.rows) = 1
    /\ \E i \in 1..Len(df.rows) : isnull(Cell(df, i, filters[1].col))

\* The case-insensitive substring test on two strings
ContainsNoCase(sub, str) ==
    \E i \in 0..(Len(str) - Len(sub)) : SubSeq(LowerStr(str), i + 1, i + Len(sub)) = LowerStr(sub)

\* C5: on a Categorical column a row whose cell is missing never satisfies
\* contains and always satisfies not-contains; a non-missing cell satisfies
\* contains exactly when its string holds the operand, case-insensitively, and ==
\* exactly when its string is the operand, case-sensitively.
C5_MissingNeverContains ==
    (/\ Evaluated /\ err = "none" /\ Len(filters) = 1
     /\ df.dtype[filters[1].col] = "obj")
    => LET f == filters[1]
       IN \A i \in 1..Len(df.rows) :
            LET c == Cell(df, i, f.col)
                kept == df.rows[i].idx \in IdxSet(filtered)
            IN /\ (f.op = "contains" /\ isnull(c)) => ~kept
               /\ (f.op = "not contains" /\ isnull(c)) => kept
               /\ (f.op = "contains" /\ ~isnull(c)) => (kept <=> ContainsNoCase(f.val.v, c.v))
               /\ (f.op = "==" /\ ~isnull(c) /\ f.val.t = "str") => (kept <=> c.v = f.val.v)

\* C8: a predicate on a numeric column whose value float() rejects does not raise
\* and changes nothing: the result is that of the filter list without it.
C8_UncoercibleSkipped ==
    Evaluated =>
        \A i \in 1..Len(filters) :
            Uncoercible(df, filters[i]) =>
                /\ FilterStep(df, filters[i]) = Ok(df)
                /\ apply_filters(df, Without(filters, i)) = Result

\* A rejected value beside a predicate that removed one of two rows
C8_Witness ==
    /\ Evaluated /\ err = "none" /\ Len(filters) = 2
    /\ \E i \in 1..2 : Uncoercible(df, filters[i])
    /\ Len(df.rows) = 2 /\ Len(filtered.rows) = 1

OrderOps == {"<", "<=", ">", ">="}

Compare(op, a, b) == CASE op = "<" -> a < b [] op = "<=" -> a <= b
                       [] op = ">" -> a > b [] op = ">=" -> a >= b

\* C9: a single ordering predicate with a number on a Numeric column, or a date
\* on a Temporal column, keeps exactly the rows whose value is not missing and
\* satisfies the comparison.  (A loaded table has no datetime64 column, so the
\* cases that arise are those on a Numeric column.)
C9_OrderingKeepsExactly ==
    (/\ Evaluated /\ Len(filters) = 1 /\ filters[1].op \in OrderOps
     /\ \/ is_numeric_dtype(df.dtype[filters[1].col]) /\ filters[1].val.t = "float"
        \/ is_datetime64_any_dtype(df.dtype[filters[1].col]) /\ filters[1].val.t = "date")
    => /\ err = "none"
       /\ IdxSet(filtered) =
            {df.rows[i].idx : i \in
                {j \in 1..Len(df.rows) :
                    /\ ~isnull(Cell(df, j, filters[1].col))
                    /\ Compare(filters[1].op, Cell(df, j, filters[1].col).v, filters[1].val.v)}}

\* age >= 2.0 on a numeric column holding the operand itself and a missing value:
\* the first row is kept, the second is not
C9_Witness ==
    /\ Evaluated /\ err = "none"
    /\ filters = <<Filter("age", ">=", FloatVal(2))>>
    /\ is_numeric_dtype(df.dtype["age"])
    /\ Len(df.rows) = 2
    /\ Cell(df, 1, "age") = Num(2) /\ isnull(Cell(df, 2, "age"))
    /\ IdxSet(filtered) = {df.rows[1].idx}

----------------------------------------------------------------------------
(* Properties of viz_area, checked under SpecViz *)

Drawn == last = "viz_area"

\* The rows of group key whose measure is not missing
PresentIn(t, xc, yc, key) ==
    {i \in 1..Len(t.rows) : t.rows[i].val[xc] = key /\ ~isnull(t.rows[i].val[yc])}

\* C6 as stated, read on a measure other than the grouping column: the count
\* aggregation on a Numeric measure draws, for each group, the value the
\* aggregation with no measure draws (the number of rows in the group).
C6_CountEqualsRowCount ==
    (Drawn /\ AggShown(filtered, y, chart) /\ agg = "count" /\ x # y)
    => plot.series = viz_area(filtered, x, NoneCol, chart, agg).plot.series

\* C6 as amended: the count aggregation on a Numeric measure draws the groups of
\* the aggregation with no measure, in the same order, each with the number of
\* its rows whose measure is not missing; that is the row count of the group
\* exactly when none of its measures is missing.  With the grouping column
\* itself as the measure it raises ValueError and draws nothing.
C6_CountSkipsMissing ==
    (Drawn /\ AggShown(filtered, y, chart) /\ agg = "count")
    => IF x = y
       THEN err = "ValueError" /\ plot = NoPlot
       ELSE LET rowcount == viz_area(filtered, x, NoneCol, chart, agg).plot.series
            IN /\ err = "none"
               /\ Len(plot.series) = Len(rowcount)
               /\ \A i \in 1..Len(plot.series) :
                     LET g == plot.series[i]
                     IN /\ g.key = rowcount[i].key
                        /\ g.value = Num(Cardinality(PresentIn(filtered, x, y, g.key)))
                        /\ g.value.v <= rowcount[i].value.v
                        /\ (g.value = rowcount[i].value) <=>
                             (\A j \in 1..Len(filtered.rows) :
                                 filtered.rows[j].val[x] = g.key => ~isnull(filtered.rows[j].val[y]))

\* A count over a group of two rows, one of them with a missing measure
C6_Witness ==
    /\ Drawn /\ err = "none" /\ AggShown(filtered, y, chart) /\ agg = "count" /\ x # y
    /\ Len(filtered.rows) = 2
    /\ \E i \in 1..Len(plot.series) :
          /\ plot.series[i].value = Num(1)
          /\ viz_area(filtered, x, NoneCol, chart, agg).plot.series[i].value = Num(2)

----------------------------------------------------------------------------
(* Properties of the session, checked under Spec *)

\* C7: whenever a new table is loaded, the filter list is empty right after.
C7_EmptyAfterLoad ==
    [][(df' # NoTable /\ df' # df) => filters' = <<>>]_vars

\* C10: every pass (apply_filters, then the aggregation) completes.
C10_EveryPassCompletes == err = "none"

==========================================================================
